---- MODULE Spec2Model ----
(***************************************************************************)
(* homebrew_notify.py: a run of main() is one step.  The state is what     *)
(* survives a run (the install directory with its three files, the user's  *)
(* crontab) plus a record of what the latest run did.                      *)
(*                                                                         *)
(* Python values are modelled by what the code does with them:             *)
(*   - an OutdatedFormuala namedtuple is the tuple                         *)
(*     <<package, installed_version, current_version>>;                    *)
(*   - a JSON object / dict is a record with the three field names;        *)
(*   - a list is [type |-> "list", items |-> seq], {} is the empty dict,   *)
(*     so that [] != {} as in Python;                                      *)
(*   - a text is a sequence of chunks, "\n" being the line break; a line   *)
(*     is a sequence of chunks and `pattern in line` is chunk membership.  *)
(***************************************************************************)
EXTENDS Integers, Sequences, FiniteSets, TLC

VARIABLES install_dir, files, crontab, run

vars == <<install_dir, files, crontab, run>>

(***************************************************************************)
(* Bounds of the model                                                     *)
(***************************************************************************)
MaxTaps == 2
MaxCasks == 1
MaxLines == 2

(***************************************************************************)
(* Module constants, lines 11-14                                           *)
(***************************************************************************)
SCRIPT_INSTALL_LOCATION == "~/.homebrew_notify/homebrew_notify.py"
REPORTED_TAPS_FILE == "~/.homebrew_notify/reported_taps.json"
REPORTED_CASKS_FILE == "~/.homebrew_notify/reported_casks.json"

Paths == {SCRIPT_INSTALL_LOCATION, REPORTED_TAPS_FILE, REPORTED_CASKS_FILE}

Absent == [exists |-> FALSE, content |-> <<>>]

File(c) == [exists |-> TRUE, content |-> c]

NoFiles == [p \in Paths |-> Absent]

(***************************************************************************)
(* Python values                                                           *)
(***************************************************************************)
OutdatedFormuala(package, installed_version, current_version) ==
    <<package, installed_version, current_version>>

asdict(formula) ==
    [package |-> formula[1], installed_version |-> formula[2], current_version |-> formula[3]]

PyList(s) == [type |-> "list", items |-> s]

PyDict == [type |-> "dict", items |-> <<>>]

PyNone == [type |-> "None", items |-> <<>>]

\* list != list compares element by element, in order; a list never equals a dict
py_ne(a, b) == a.type # b.type \/ a.items # b.items

(***************************************************************************)
(* StateStore, lines 100-132                                               *)
(***************************************************************************)
\* open(file_path, "w+") needs the directory; json.dump of the _asdict()s
store_formula_list(formula_list, file_path, dir, fs) ==
    IF dir
    THEN [ok |-> TRUE,
          fs |-> [fs EXCEPT ![file_path] =
                     File([i \in 1..Len(formula_list) |-> asdict(formula_list[i])])]]
    ELSE [ok |-> FALSE, fs |-> fs]

load_formula_list_swapped(file_path, dir, fs) ==
    IF dir /\ fs[file_path].exists
    THEN PyList([i \in 1..Len(fs[file_path].content) |->
                   LET tap == fs[file_path].content[i]
                   IN  OutdatedFormuala(tap.package, tap.current_version, tap.installed_version)])
    ELSE PyDict

\* [OutdatedFormuala(**tap) for tap in json.load(f)]; FileNotFoundError gives {}
load_formula_list(file_path, dir, fs) ==
    IF dir /\ fs[file_path].exists
    THEN PyList([i \in 1..Len(fs[file_path].content) |->
                   LET tap == fs[file_path].content[i]
                   IN  OutdatedFormuala(tap.package, tap.installed_version, tap.current_version)])
    ELSE PyDict

update_reported_taps(taps, dir, fs) == store_formula_list(taps, REPORTED_TAPS_FILE, dir, fs)

update_reported_casks(casks, dir, fs) == store_formula_list(casks, REPORTED_CASKS_FILE, dir, fs)

get_reporeted_taps(dir, fs) == load_formula_list(REPORTED_TAPS_FILE, dir, fs)

get_reporeted_casks(dir, fs) == load_formula_list(REPORTED_CASKS_FILE, dir, fs)

(***************************************************************************)
(* Subprocesses, lines 61-97: every call has check=True, so a non-zero     *)
(* exit raises CalledProcessError out of the run.  `fail` names the        *)
(* command that exits non-zero in this run ("none": all succeed).          *)
(***************************************************************************)
subprocess_run(check, fail, cmd) == ~(check /\ fail = cmd)

brew_update_unchecked(fail) == subprocess_run(FALSE, fail, "brew update")

brew_update(fail) == subprocess_run(TRUE, fail, "brew update")

\* the parsed, non-pinned entries of the JSON listing
brew_outdated(fail, outdated_taps) ==
    [ok |-> subprocess_run(TRUE, fail, "brew outdated"), value |-> outdated_taps]

\* the lines of the verbose listing that match CASK_VERSION_REGEX
brew_cask_outdated(fail, outdated_casks) ==
    [ok |-> subprocess_run(TRUE, fail, "brew cask outdated"), value |-> outdated_casks]

(***************************************************************************)
(* Notifier, lines 49-58 and 135-160                                       *)
(***************************************************************************)
\* the order of str comparison on the package names in use
Alphabet == <<"a", "b", "c">>

Rank(name) == CHOOSE i \in 1..Len(Alphabet) : Alphabet[i] = name

RECURSIVE sorted(_)
sorted(names) ==
    IF names = <<>> THEN <<>>
    ELSE LET m == CHOOSE i \in 1..Len(names) :
                    \A j \in 1..Len(names) : Rank(names[i]) <= Rank(names[j])
             rest == [k \in 1..(Len(names) - 1) |-> IF k < m THEN names[k] ELSE names[k + 1]]
         IN  <<names[m]>> \o sorted(rest)

\* osascript display notification; a falsy title or subtitle is left out
notify(text, title, subtitle) == [text |-> text, title |-> title, subtitle |-> subtitle]

get_notification_string(num_items, item_name) ==
    IF num_items < 1 THEN <<>>
    ELSE IF num_items > 1 THEN <<ToString(num_items), item_name, "s">>
    ELSE <<ToString(num_items), item_name>>

NoUpdates == notify(<<>>, "No tap or cask updates available", <<>>)

notify_taps_and_casks_quiet(taps, casks, always_notify) ==
    IF taps \o casks = <<>> THEN <<>>
    ELSE <<notify(sorted([i \in 1..Len(taps \o casks) |-> (taps \o casks)[i][1]]),
                  "Homebrew Updates Available", <<"There are updates to">>)>>

\* the notifications the call sends
notify_taps_and_casks(taps, casks, always_notify) ==
    IF taps \o casks = <<>>
    THEN IF always_notify THEN <<NoUpdates>> ELSE <<>>
    ELSE LET tap_text == get_notification_string(Len(taps), "tap")
             cask_text == get_notification_string(Len(casks), "cask")
             formulae_text == IF tap_text # <<>> /\ cask_text # <<>>
                              THEN tap_text \o <<"and">> \o cask_text
                              ELSE tap_text \o cask_text
         IN  <<notify(sorted([i \in 1..Len(taps \o casks) |-> (taps \o casks)[i][1]]),
                      "Homebrew Updates Available",
                      <<"There are updates to">> \o formulae_text)>>

(***************************************************************************)
(* notify_outdated_formula, lines 163-180                                  *)
(***************************************************************************)
need_to_notify_both(always_notify, outdated_taps, reported_taps, outdated_casks, reported_casks) ==
    IF always_notify THEN TRUE
    ELSE py_ne(PyList(outdated_taps), reported_taps) /\ py_ne(PyList(outdated_casks), reported_casks)

need_to_notify_always(always_notify, outdated_taps, reported_taps, outdated_casks, reported_casks) ==
    TRUE

need_to_notify(always_notify, outdated_taps, reported_taps, outdated_casks, reported_casks) ==
    IF always_notify THEN TRUE
    ELSE py_ne(PyList(outdated_taps), reported_taps) \/ py_ne(PyList(outdated_casks), reported_casks)

\* what a run has done so far
Outcome(status, steps, sent, reads, writes, fs, taps, casks, reported_taps, reported_casks) ==
    [status |-> status, steps |-> steps, sent |-> sent, reads |-> reads, writes |-> writes,
     fs |-> fs, outdated_taps |-> taps, outdated_casks |-> casks,
     reported_taps |-> reported_taps, reported_casks |-> reported_casks]

notify_outdated_formula(always_notify, fail, scan_taps, scan_casks, dir, fs) ==
    LET s1 == <<"brew_update">>
        s2 == s1 \o <<"brew_outdated">>
        s3 == s2 \o <<"brew_cask_outdated">>
        outdated_taps == brew_outdated(fail, scan_taps)
        outdated_casks == brew_cask_outdated(fail, scan_casks)
    IN
    IF ~brew_update(fail)
    THEN Outcome("failed", s1, <<>>, {}, {}, fs, <<>>, <<>>, PyNone, PyNone)
    ELSE IF ~outdated_taps.ok
    THEN Outcome("failed", s2, <<>>, {}, {}, fs, <<>>, <<>>, PyNone, PyNone)
    ELSE IF ~outdated_casks.ok
    THEN Outcome("failed", s3, <<>>, {}, {}, fs, outdated_taps.value, <<>>, PyNone, PyNone)
    ELSE
    LET taps == outdated_taps.value
        casks == outdated_casks.value
        reported_taps == IF always_notify THEN PyNone ELSE get_reporeted_taps(dir, fs)
        reported_casks == IF always_notify THEN PyNone ELSE get_reporeted_casks(dir, fs)
        s4 == IF always_notify THEN s3
              ELSE s3 \o <<"get_reporeted_taps", "get_reporeted_casks">>
        reads == IF always_notify THEN {} ELSE {REPORTED_TAPS_FILE, REPORTED_CASKS_FILE}
    IN
    IF ~need_to_notify(always_notify, taps, reported_taps, casks, reported_casks)
    THEN Outcome("ok", s4, <<>>, reads, {}, fs, taps, casks, reported_taps, reported_casks)
    ELSE
    LET sent == notify_taps_and_casks(taps, casks, always_notify)
        s5 == s4 \o <<"notify_taps_and_casks">>
    IN
    IF always_notify
    THEN Outcome("ok", s5, sent, reads, {}, fs, taps, casks, reported_taps, reported_casks)
    ELSE
    LET w1 == update_reported_taps(taps, dir, fs)
        s6 == s5 \o <<"update_reported_taps">>
        w2 == update_reported_casks(casks, dir, w1.fs)
        s7 == s6 \o <<"update_reported_casks">>
    IN
    IF ~w1.ok
    THEN Outcome("failed", s6, sent, reads, {REPORTED_TAPS_FILE}, fs,
                 taps, casks, reported_taps, reported_casks)
    ELSE IF ~w2.ok
    THEN Outcome("failed", s7, sent, reads, {REPORTED_TAPS_FILE, REPORTED_CASKS_FILE}, w1.fs,
                 taps, casks, reported_taps, reported_casks)
    ELSE Outcome("ok", s7, sent, reads, {REPORTED_TAPS_FILE, REPORTED_CASKS_FILE}, w2.fs,
                 taps, casks, reported_taps, reported_casks)

(***************************************************************************)
(* Crontab, lines 183-206.  `crontab -` stores its input as it is and      *)
(* `crontab -l` prints what is stored.                                     *)
(***************************************************************************)
NL == "\n"

HOMEBREW_NOTIFIER == ".homebrew-notifier/notifier.sh"

\* str.splitlines(): lines end at a line break; no empty line after the last break
RECURSIVE splitlines(_)
splitlines(text) ==
    IF text = <<>> THEN <<>>
    ELSE IF \E i \in 1..Len(text) : text[i] = NL
    THEN LET i == CHOOSE k \in 1..Len(text) :
                     text[k] = NL /\ \A j \in 1..(k - 1) : text[j] # NL
         IN  <<SubSeq(text, 1, i - 1)>> \o splitlines(SubSeq(text, i + 1, Len(text)))
    ELSE <<text>>

\* "\n".join(lines)
RECURSIVE join(_)
join(lines) ==
    IF lines = <<>> THEN <<>>
    ELSE IF Len(lines) = 1 THEN lines[1]
    ELSE lines[1] \o <<NL>> \o join(Tail(lines))

\* pattern in line
contains(line, pattern) == \E i \in 1..Len(line) : line[i] = pattern

RECURSIVE keep_without(_, _)
keep_without(lines, pattern) ==
    IF lines = <<>> THEN <<>>
    ELSE IF contains(lines[1], pattern) THEN keep_without(Tail(lines), pattern)
    ELSE <<lines[1]>> \o keep_without(Tail(lines), pattern)

remove_first_match_from_crontab(lines, pattern) ==
    IF \E i \in 1..Len(lines) : contains(lines[i], pattern)
    THEN LET i == CHOOSE k \in 1..Len(lines) :
                     contains(lines[k], pattern)
                     /\ \A j \in 1..(k - 1) : ~contains(lines[j], pattern)
         IN  [removed |-> TRUE, crontab |-> SubSeq(lines, 1, i - 1) \o SubSeq(lines, i + 1, Len(lines))]
    ELSE [removed |-> FALSE, crontab |-> lines]

\* returns (len(crontab) != len(new_crontab), new_crontab)
remove_pattern_from_crontab(lines, pattern) ==
    [removed |-> Len(lines) # Len(keep_without(lines, pattern)),
     crontab |-> keep_without(lines, pattern)]

remove_self_from_crontab(lines) == remove_pattern_from_crontab(lines, SCRIPT_INSTALL_LOCATION)

remove_homebrew_notifier_from_crontab(lines) == remove_pattern_from_crontab(lines, HOMEBREW_NOTIFIER)

get_current_crontab(fail, stored) ==
    [ok |-> subprocess_run(TRUE, fail, "crontab -l"), value |-> splitlines(stored)]

update_crontab(fail, new_crontab, stored) ==
    IF subprocess_run(TRUE, fail, "crontab -")
    THEN [ok |-> TRUE, stored |-> join(new_crontab)]
    ELSE [ok |-> FALSE, stored |-> stored]

(***************************************************************************)
(* InstallManager, lines 209-244                                           *)
(***************************************************************************)
new_line ==
    <<"*/30 * * * * PATH=/usr/local/bin:$PATH ", SCRIPT_INSTALL_LOCATION, " --notify-once">>

\* INSTALL_DIR.mkdir(parents=True, exist_ok=True); shutil.copy(__file__, ...)
copy_file(dir, fs) ==
    [dir |-> TRUE, fs |-> [fs EXCEPT ![SCRIPT_INSTALL_LOCATION] = File(<<"homebrew_notify.py">>)]]

\* what an install or uninstall run has done: `read` is the list get_current_crontab gave it
Installed(status, steps, printed, read, dir, fs, stored) ==
    [status |-> status, steps |-> steps, printed |-> printed, read |-> read,
     dir |-> dir, fs |-> fs, stored |-> stored]

install(fail, dir, fs, stored) ==
    LET copied == copy_file(dir, fs)
        s1 == <<"copy_file", "get_current_crontab">>
        read == get_current_crontab(fail, stored)
    IN
    IF ~read.ok THEN Installed("failed", s1, <<>>, <<>>, copied.dir, copied.fs, stored)
    ELSE
    LET self == remove_self_from_crontab(read.value)
        ruby == remove_homebrew_notifier_from_crontab(self.crontab)
        printed == (IF self.removed
                    THEN <<"Replacing currently installed Homebrew Notify">> ELSE <<>>)
                   \o (IF ruby.removed
                       THEN <<"Removing currently installed Homebrew Notifier (Ruby)">>
                       ELSE <<>>)
        written == update_crontab(fail, ruby.crontab \o <<new_line>>, stored)
        s2 == s1 \o <<"remove_self_from_crontab", "remove_homebrew_notifier_from_crontab",
                      "update_crontab">>
    IN  Installed(IF written.ok THEN "ok" ELSE "failed", s2, printed, read.value,
                  copied.dir, copied.fs, written.stored)

remove_install_directory_kept(dir, fs) == [ok |-> dir, dir |-> dir, fs |-> fs]

\* shutil.rmtree(INSTALL_DIR): FileNotFoundError when the directory is missing
remove_install_directory(dir, fs) ==
    IF dir THEN [ok |-> TRUE, dir |-> FALSE, fs |-> NoFiles]
    ELSE [ok |-> FALSE, dir |-> dir, fs |-> fs]

uninstall(fail, dir, fs, stored) ==
    LET s1 == <<"get_current_crontab">>
        read == get_current_crontab(fail, stored)
    IN
    IF ~read.ok THEN Installed("failed", s1, <<>>, <<>>, dir, fs, stored)
    ELSE
    LET self == remove_self_from_crontab(read.value)
        written == update_crontab(fail, self.crontab, stored)
        s2 == s1 \o <<"remove_self_from_crontab", "update_crontab">>
        removed == remove_install_directory(dir, fs)
        s3 == s2 \o <<"remove_install_directory">>
    IN
    IF ~written.ok THEN Installed("failed", s2, <<>>, read.value, dir, fs, stored)
    ELSE Installed(IF removed.ok THEN "ok" ELSE "failed", s3, <<>>, read.value,
                   removed.dir, removed.fs, written.stored)

(***************************************************************************)
(* Inputs of a run: what brew reports, and which subprocess exits non-zero *)
(***************************************************************************)
TapFormulae ==
    {OutdatedFormuala("a", "1.0", "2.0"), OutdatedFormuala("a", "1.0", "3.0"),
     OutdatedFormuala("b", "1.0", "2.0")}

CaskFormulae == {OutdatedFormuala("c", "1.0", "2.0")}

\* brew lists a package once
FormulaLists(formulae, n) ==
    {l \in UNION {[1..k -> formulae] : k \in 0..n} :
        \A i, j \in 1..Len(l) : l[i][1] = l[j][1] => i = j}

TapLists == FormulaLists(TapFormulae, MaxTaps)

CaskLists == FormulaLists(CaskFormulae, MaxCasks)

BrewFailures == {"none", "brew update", "brew outdated", "brew cask outdated"}

CrontabFailures == {"none", "crontab -l", "crontab -"}

\* crontab lines: blank, two unrelated jobs, this tool's entry, the Ruby tool's entry,
\* and a line naming both paths
CrontabLines ==
    {<<>>, <<"0 9 * * * job1">>, <<"@daily job2">>, new_line,
     <<"0 * * * * ", HOMEBREW_NOTIFIER>>,
     <<"0 * * * * ", HOMEBREW_NOTIFIER, "; ", SCRIPT_INSTALL_LOCATION>>}

\* what `crontab -l` may print: up to MaxLines lines, the last one ending in a line
\* break or not
Crontabs ==
    LET lists == UNION {[1..k -> CrontabLines] : k \in 0..MaxLines}
    IN  {join(l) : l \in lists} \cup {join(l) \o <<NL>> : l \in lists}

(***************************************************************************)
(* The state                                                               *)
(***************************************************************************)
\* what the notifier part of a run did; Quiet for a run that is not a notifier run
Quiet ==
    [sent |-> <<>>, reads |-> {}, writes |-> {}, outdated_taps |-> <<>>,
     outdated_casks |-> <<>>, reported_taps |-> PyNone, reported_casks |-> PyNone]

Run(cmd, always_notify, fail, status, steps, n, printed, read) ==
    [cmd |-> cmd, always_notify |-> always_notify, fail |-> fail, status |-> status,
     steps |-> steps, sent |-> n.sent, reads |-> n.reads, writes |-> n.writes,
     outdated_taps |-> n.outdated_taps, outdated_casks |-> n.outdated_casks,
     reported_taps |-> n.reported_taps, reported_casks |-> n.reported_casks,
     printed |-> printed, crontab_read |-> read]

NoRun == Run("none", FALSE, "none", "ok", <<>>, Quiet, <<>>, <<>>)

\* the install directory is missing, or holds any of the script and the state files,
\* a state file holding the empty list
InitFiles ==
    /\ install_dir \in BOOLEAN
    /\ files \in [Paths -> {Absent, File(<<>>)}]
    /\ ~install_dir => files = NoFiles
    /\ run = NoRun

Init ==
    /\ InitFiles
    /\ crontab \in {<<>>, join(<<<<"0 9 * * * job1">>, new_line>>) \o <<NL>>}

InitCrontab ==
    /\ InitFiles
    /\ files[REPORTED_TAPS_FILE] = files[REPORTED_CASKS_FILE]
    /\ crontab \in Crontabs

(***************************************************************************)
(* main, lines 247-256: one run of the script                              *)
(***************************************************************************)
DoInstall ==
    \E fail \in CrontabFailures :
        \E r \in {install(fail, install_dir, files, crontab)} :
            /\ install_dir' = r.dir
            /\ files' = r.fs
            /\ crontab' = r.stored
            /\ run' = Run("install", FALSE, fail, r.status, r.steps, Quiet, r.printed, r.read)

DoUninstall ==
    \E fail \in CrontabFailures :
        \E r \in {uninstall(fail, install_dir, files, crontab)} :
            /\ install_dir' = r.dir
            /\ files' = r.fs
            /\ crontab' = r.stored
            /\ run' = Run("uninstall", FALSE, fail, r.status, r.steps, Quiet, r.printed, r.read)

\* brew's listings are read only by a run that gets as far as reading them
DoNotify(always_notify) ==
    \E fail \in BrewFailures :
    \E taps \in IF fail \in {"brew update", "brew outdated"} THEN {<<>>} ELSE TapLists :
    \E casks \in IF fail = "none" THEN CaskLists ELSE {<<>>} :
        \E r \in {notify_outdated_formula(always_notify, fail, taps, casks, install_dir, files)} :
            /\ files' = r.fs
            /\ run' = Run("notify", always_notify, fail, r.status, r.steps, r, <<>>, <<>>)
            /\ UNCHANGED <<install_dir, crontab>>

\* the branch main takes for the three flags
main(do_install, do_uninstall, notify_once) ==
    IF do_install THEN "install"
    ELSE IF do_uninstall THEN "uninstall"
    ELSE IF notify_once THEN "notify_outdated_formula(always_notify=False)"
    ELSE "notify_outdated_formula(always_notify=True)"

Flags == BOOLEAN \X BOOLEAN \X BOOLEAN

Install ==
    /\ {f \in Flags : main(f[1], f[2], f[3]) = "install"} # {}
    /\ DoInstall

Uninstall ==
    /\ {f \in Flags : main(f[1], f[2], f[3]) = "uninstall"} # {}
    /\ DoUninstall

NotifyOnce ==
    /\ {f \in Flags : main(f[1], f[2], f[3]) = "notify_outdated_formula(always_notify=False)"} # {}
    /\ DoNotify(FALSE)

AlwaysNotify ==
    /\ {f \in Flags : main(f[1], f[2], f[3]) = "notify_outdated_formula(always_notify=True)"} # {}
    /\ DoNotify(TRUE)

Next == Install \/ Uninstall \/ NotifyOnce \/ AlwaysNotify

Spec == Init /\ [][Next]_vars

NextCrontab == Install \/ Uninstall

SpecCrontab == InitCrontab /\ [][NextCrontab]_vars

(***************************************************************************)
(* Vocabulary of the properties                                            *)
(***************************************************************************)
StateFiles == {REPORTED_TAPS_FILE, REPORTED_CASKS_FILE}

NotifyOnceRun(r) == r.cmd = "notify" /\ ~r.always_notify

AlwaysNotifyRun(r) == r.cmd = "notify" /\ r.always_notify

\* the run got as far as loading the state files
Loaded(r) == r.reported_taps.type # "None" /\ r.reported_casks.type # "None"

\* both state files were there to load
LoadedLists(r) == r.reported_taps.type = "list" /\ r.reported_casks.type = "list"

\* the loaded prior state equals the scan (Python ==)
SameAsLoaded(r) ==
    /\ r.reported_taps = PyList(r.outdated_taps)
    /\ r.reported_casks = PyList(r.outdated_casks)

EmptyScan(r) == r.outdated_taps = <<>> /\ r.outdated_casks = <<>>

\* the JSON array json.dump writes for a list of formulae
Json(formula_list) ==
    [i \in 1..Len(formula_list) |->
        [package |-> formula_list[i][1], installed_version |-> formula_list[i][2],
         current_version |-> formula_list[i][3]]]

\* both state files hold the scan of run r
Persisted(fs, r) ==
    /\ fs[REPORTED_TAPS_FILE] = File(Json(r.outdated_taps))
    /\ fs[REPORTED_CASKS_FILE] = File(Json(r.outdated_casks))

Occurrences(x, s) == Cardinality({i \in 1..Len(s) : s[i] = x})

\* the same records, in any order
IsPermutation(s, t) ==
    /\ Len(s) = Len(t)
    /\ \A i \in 1..Len(s) : Occurrences(s[i], s) = Occurrences(s[i], t)

SelfLines(lines) == {i \in 1..Len(lines) : contains(lines[i], SCRIPT_INSTALL_LOCATION)}

RubyLines(lines) == {i \in 1..Len(lines) : contains(lines[i], HOMEBREW_NOTIFIER)}

RECURSIVE Unrelated(_, _)
Unrelated(lines, patterns) ==
    IF lines = <<>> THEN <<>>
    ELSE IF \E q \in patterns : contains(lines[1], q) THEN Unrelated(Tail(lines), patterns)
    ELSE <<lines[1]>> \o Unrelated(Tail(lines), patterns)

\* the run got past update_crontab
WroteCrontab(r) == r.fail = "none" /\ r.steps # <<>> /\ r.steps[Len(r.steps)] # "get_current_crontab"

DropFinalBlank(lines) ==
    IF lines # <<>> /\ lines[Len(lines)] = <<>> THEN SubSeq(lines, 1, Len(lines) - 1) ELSE lines

(***************************************************************************)
(* C1                                                                      *)
(***************************************************************************)
\* C1: a notify-once run whose loaded tap and cask lists equal the scanned ones sends
\* no notification and leaves both state files unchanged.
C1_EqualStateIsSilent ==
    [][(NotifyOnceRun(run') /\ SameAsLoaded(run'))
          => (run'.sent = <<>> /\ run'.writes = {} /\ files' = files)]_vars

C1_Witness ==
    /\ NotifyOnceRun(run) /\ run.status = "ok" /\ SameAsLoaded(run)
    /\ run.outdated_taps # <<>> /\ run.outdated_casks # <<>>
    /\ run.sent = <<>>

(***************************************************************************)
(* C2                                                                      *)
(***************************************************************************)
\* C2 as stated: a notify-once run whose persisted prior state differs from the scan
\* sends a notification and overwrites both state files, whatever the scan.
C2_DifferentStateNotifies ==
    [][(NotifyOnceRun(run') /\ LoadedLists(run') /\ ~SameAsLoaded(run'))
          => (Len(run'.sent) = 1 /\ Persisted(files', run'))]_vars

\* C2, amended: a notify-once run whose loaded prior state differs from the scan sends
\* one notification when a scanned list is non-empty and none when both are empty; it
\* then overwrites both state files with the scan when the install directory exists,
\* and fails at the first write, the files untouched, when it does not.
C2_DifferentStatePersists ==
    [][(NotifyOnceRun(run') /\ Loaded(run') /\ ~SameAsLoaded(run'))
          => /\ Len(run'.sent) = (IF EmptyScan(run') THEN 0 ELSE 1)
             /\ run'.writes # {}
             /\ install_dir => (run'.status = "ok" /\ Persisted(files', run'))
             /\ ~install_dir => (run'.status = "failed" /\ files' = files)]_vars

C2_Witness ==
    /\ NotifyOnceRun(run) /\ run.status = "ok" /\ LoadedLists(run)
    /\ run.reported_taps.items # <<>> /\ EmptyScan(run)
    /\ run.sent = <<>> /\ run.writes = StateFiles /\ Persisted(files, run)

(***************************************************************************)
(* C3                                                                      *)
(***************************************************************************)
\* C3: a notify-once run whose scan holds the records of the persisted state in another
\* order decides that nothing changed and sends no notification.
C3_OrderIndependent ==
    [][(/\ NotifyOnceRun(run') /\ LoadedLists(run')
        /\ IsPermutation(run'.outdated_taps, run'.reported_taps.items)
        /\ IsPermutation(run'.outdated_casks, run'.reported_casks.items))
          => (run'.sent = <<>> /\ run'.writes = {} /\ files' = files)]_vars

(***************************************************************************)
(* C4, C5, C10: install and uninstall (checked under SpecCrontab)          *)
(***************************************************************************)
\* C4: after a successful install run, whatever the crontab held before, the crontab
\* has exactly one line naming the script's install path.
C4_OneEntryAfterInstall ==
    (run.cmd = "install" /\ run.status = "ok")
        => Cardinality(SelfLines(splitlines(crontab))) = 1

C4_Witness ==
    /\ run.cmd = "install" /\ run.status = "ok"
    /\ SelfLines(run.crontab_read) # {}
    /\ run.printed # <<>> /\ run.printed[1] = "Replacing currently installed Homebrew Notify"

\* C5: after a successful uninstall run the crontab has no line naming the script's
\* install path, and the install directory is gone with the script and both state files.
C5_NothingLeftAfterUninstall ==
    (run.cmd = "uninstall" /\ run.status = "ok")
        => /\ SelfLines(splitlines(crontab)) = {}
           /\ ~install_dir
           /\ \A p \in Paths : ~files[p].exists

C5_Witness ==
    /\ run.cmd = "uninstall" /\ run.status = "ok"
    /\ SelfLines(run.crontab_read) # {}
    /\ ~install_dir

\* C10 as stated: a successful install leaves the lines naming neither path, in order,
\* followed by the new line; a successful uninstall leaves exactly the lines that do
\* not name the install path, in order.
C10_UnrelatedLinesKept ==
    /\ (run.cmd = "install" /\ run.status = "ok")
          => splitlines(crontab)
                = Unrelated(run.crontab_read, {SCRIPT_INSTALL_LOCATION, HOMEBREW_NOTIFIER})
                     \o <<new_line>>
    /\ (run.cmd = "uninstall" /\ run.status = "ok")
          => splitlines(crontab) = Unrelated(run.crontab_read, {SCRIPT_INSTALL_LOCATION})

\* What the code does where C10 fails: when the lines uninstall keeps end with a blank
\* line, that one blank line is lost in writing the crontab back (also by an uninstall
\* that fails afterwards, on a missing install directory).
UninstallDropsFinalBlank ==
    /\ (run.cmd = "install" /\ run.status = "ok")
          => splitlines(crontab)
                = Unrelated(run.crontab_read, {SCRIPT_INSTALL_LOCATION, HOMEBREW_NOTIFIER})
                     \o <<new_line>>
    /\ (run.cmd = "uninstall" /\ WroteCrontab(run))
          => splitlines(crontab)
                = DropFinalBlank(Unrelated(run.crontab_read, {SCRIPT_INSTALL_LOCATION}))

(***************************************************************************)
(* C6, C7, C8, C9                                                          *)
(***************************************************************************)
\* C6: an always-notify run whose subprocesses succeed sends exactly one notification,
\* the fixed "no updates" one when both scanned lists are empty, whatever the state
\* files hold, and neither reads nor writes the state files.
C6_AlwaysNotifyTouchesNoState ==
    [][(AlwaysNotifyRun(run') /\ run'.fail = "none")
          => /\ run'.status = "ok"
             /\ Len(run'.sent) = 1
             /\ EmptyScan(run') => run'.sent[1] = NoUpdates
             /\ run'.reads = {} /\ run'.writes = {}
             /\ files' = files /\ install_dir' = install_dir]_vars

C6_Witness ==
    /\ AlwaysNotifyRun(run) /\ run.fail = "none" /\ EmptyScan(run)
    /\ run.sent = <<NoUpdates>>
    /\ files[REPORTED_TAPS_FILE].exists /\ files[REPORTED_TAPS_FILE].content # <<>>

\* the state files, a missing one replaced by one that holds the empty list
WithEmptyLists(fs) ==
    [p \in Paths |-> IF p \in StateFiles /\ ~fs[p].exists THEN File(<<>>) ELSE fs[p]]

\* C7: a notify-once run that finds a state file (or the install directory) missing
\* completes, and notifies and persists as the same run does when the file holds [].
C7_MissingFileIsEmptyState ==
    [][(/\ NotifyOnceRun(run') /\ run'.fail = "none"
        /\ \E p \in StateFiles : ~(install_dir /\ files[p].exists))
          => \E r \in {notify_outdated_formula(FALSE, "none", run'.outdated_taps,
                                               run'.outdated_casks, TRUE,
                                               WithEmptyLists(files))} :
                /\ run'.status = "ok"
                /\ run'.sent = r.sent
                /\ run'.writes = r.writes]_vars

StepsUpTo(fail) ==
    CASE fail = "brew update" -> <<"brew_update">>
      [] fail = "brew outdated" -> <<"brew_update", "brew_outdated">>
      [] fail = "brew cask outdated" -> <<"brew_update", "brew_outdated", "brew_cask_outdated">>

\* C8: when brew update, brew outdated or brew cask outdated exits non-zero the run
\* fails there: no later step runs, nothing is sent, both state files are unchanged.
C8_SubprocessFailureAborts ==
    [][(run'.cmd = "notify" /\ run'.fail # "none")
          => /\ run'.status = "failed"
             /\ run'.steps = StepsUpTo(run'.fail)
             /\ run'.sent = <<>>
             /\ run'.reads = {} /\ run'.writes = {}
             /\ files' = files]_vars

C8_Witness ==
    /\ NotifyOnceRun(run) /\ run.fail = "brew cask outdated" /\ run.status = "failed"
    /\ run.outdated_taps # <<>>
    /\ files[REPORTED_TAPS_FILE].exists /\ files[REPORTED_TAPS_FILE].content = <<>>

\* C9: what a notify-once run stores loads back as the list it scanned, and the next
\* notify-once run, if it scans the same lists, sends nothing and leaves the state
\* files unchanged.
C9_SaveThenLoad ==
    [][/\ (NotifyOnceRun(run') /\ run'.status = "ok" /\ run'.writes = StateFiles)
             => /\ get_reporeted_taps(install_dir', files') = PyList(run'.outdated_taps)
                /\ get_reporeted_casks(install_dir', files') = PyList(run'.outdated_casks)
       /\ (/\ NotifyOnceRun(run) /\ run.status = "ok" /\ run.writes = StateFiles
           /\ NotifyOnceRun(run') /\ run'.fail = "none"
           /\ run'.outdated_taps = run.outdated_taps
           /\ run'.outdated_casks = run.outdated_casks)
             => (run'.sent = <<>> /\ run'.writes = {} /\ files' = files)]_vars

C9_Witness ==
    /\ NotifyOnceRun(run) /\ run.status = "ok" /\ run.fail = "none"
    /\ Len(run.outdated_taps) = 2 /\ Len(run.outdated_casks) = 1
    /\ Persisted(files, run)
    /\ run.sent = <<>> /\ run.writes = {}

====
